---- MODULE Spec2Model ----
(***************************************************************************)
(* A model of pdf2md (src/main.py): the text-classification and reflow     *)
(* pipeline that turns per-page plain text into Markdown.                   *)
(*                                                                         *)
(* Text is modelled as a sequence of Unicode code points (naturals), so    *)
(* that ord(c) < 128, the replacement table and the emoji ranges of        *)
(* clean_unicode are the source's own numbers.  Python's None is the       *)
(* value None below, which is no string.                                   *)
(***************************************************************************)
EXTENDS Integers, Sequences, FiniteSets, TLC

(***************************************************************************)
(* Code points that the source names in string and regex literals.          *)
(***************************************************************************)
TAB == 9
NL == 10
CR == 13
SP == 32
BANG == 33
DQUOTE == 34
HASH == 35
RPAREN == 41
STAR == 42
COMMA == 44
HYPHEN == 45
DOT == 46
COLON == 58
SEMI == 59
QMARK == 63
BULLET == 8226
BLACK_CIRCLE == 9679
WHITE_BULLET == 9702
SMALL_SQUARE == 9642

\* Python's None: a value different from every text.
None == << -1 >>

\* The results of detect_header_level that are not a level: None, and the
\* IndexError that escapes from prev_line.split()[-1].
NoLevel == 0
IndexError == -1

(***************************************************************************)
(* Python's str and re primitives, on code-point sequences.                 *)
(***************************************************************************)
\* The sequence f as a tuple of its elements, each evaluated once.
tuple(f) == f \o << >>

Min(S) == CHOOSE x \in S : \A y \in S : x <= y
Max(S) == CHOOSE x \in S : \A y \in S : x >= y

\* str.isspace() of one character; also what \s matches in a str pattern.
whitespace ==
    (9..13) \cup (28..32) \cup {133, 160, 5760, 8232, 8233, 8239, 8287, 12288}
        \cup (8192..8202)

isspace(c) == c \in whitespace

\* \d and str.isdigit() on the ASCII digits.
digits == 48..57

isdigit(c) == c \in digits

\* str.isupper() / str.islower() of one character (ASCII letters are the
\* cased characters of the model's alphabets).
isupper_char(c) == c \in 65..90
islower_char(c) == c \in 97..122

\* str.isupper(): at least one cased character and no lowercase one.
isupper(s) ==
    /\ \E k \in 1..Len(s) : isupper_char(s[k])
    /\ \A k \in 1..Len(s) : ~islower_char(s[k])

\* str.lower() on ASCII letters.
lower(s) == tuple([k \in 1..Len(s) |-> IF isupper_char(s[k]) THEN s[k] + 32 ELSE s[k]])

\* str.strip(), str.rstrip(), str.lstrip()
strip(s) ==
    LET ns == {k \in 1..Len(s) : ~isspace(s[k])}
    IN  IF ns = {} THEN << >> ELSE SubSeq(s, Min(ns), Max(ns))

rstrip(s) ==
    LET ns == {k \in 1..Len(s) : ~isspace(s[k])}
    IN  IF ns = {} THEN << >> ELSE SubSeq(s, 1, Max(ns))

\* str.startswith(prefix), str.endswith(suffix)
startswith(s, p) == Len(s) >= Len(p) /\ SubSeq(s, 1, Len(p)) = p
endswith(s, p) == Len(s) >= Len(p) /\ SubSeq(s, Len(s) - Len(p) + 1, Len(s)) = p

\* s.startswith((c1, c2, ...)) / s.endswith((c1, c2, ...)) with
\* one-character alternatives.
startswith_any(s, chars) == Len(s) >= 1 /\ s[1] \in chars
endswith_any(s, chars) == Len(s) >= 1 /\ s[Len(s)] \in chars

\* needle in s
contains(s, needle) ==
    \E k \in 1..(Len(s) - Len(needle) + 1) : SubSeq(s, k, k + Len(needle) - 1) = needle

\* The elements of the set S of integers that lie in lo..hi, in increasing
\* order (by halves).
RECURSIVE sorted_range(_, _, _)
sorted_range(S, lo, hi) ==
    IF lo > hi THEN << >>
    ELSE IF lo = hi THEN (IF lo \in S THEN << lo >> ELSE << >>)
    ELSE LET mid == (lo + hi) \div 2
         IN  sorted_range(S, lo, mid) \o sorted_range(S, mid + 1, hi)

\* s.split(sep) for a one-character separator: the pieces between
\* consecutive separators, the two ends of s counting as separators.
split(s, sep) ==
    LET cuts == << 0 >> \o sorted_range({k \in 1..Len(s) : s[k] = sep}, 1, Len(s))
                        \o << Len(s) + 1 >>
    IN  tuple([j \in 1..(Len(cuts) - 1) |-> SubSeq(s, cuts[j] + 1, cuts[j + 1] - 1)])

\* s.split(): the maximal runs of non-whitespace characters.
RECURSIVE split_ws(_)
split_ws(s) ==
    LET ns == {k \in 1..Len(s) : ~isspace(s[k])}
    IN  IF ns = {} THEN << >>
        ELSE LET b == Min(ns)
                 sp == {k \in b..Len(s) : isspace(s[k])}
                 e == IF sp = {} THEN Len(s) ELSE Min(sp) - 1
             IN  << SubSeq(s, b, e) >> \o split_ws(SubSeq(s, e + 1, Len(s)))

\* ''.join(parts[lo..hi]), by halves.
RECURSIVE concat_range(_, _, _)
concat_range(parts, lo, hi) ==
    IF lo > hi THEN << >>
    ELSE IF lo = hi THEN parts[lo]
    ELSE LET mid == (lo + hi) \div 2
         IN  concat_range(parts, lo, mid) \o concat_range(parts, mid + 1, hi)

\* ''.join(parts)
concat(parts) == concat_range(tuple(parts), 1, Len(parts))

\* sep.join(parts)
join(sep, parts) ==
    concat([k \in 1..Len(parts) |-> IF k = 1 THEN parts[k] ELSE sep \o parts[k]])

\* The characters of s at the positions in keep, in order.
keep_positions(s, keep) ==
    LET at == sorted_range(keep, 1, Len(s))
    IN  tuple([j \in 1..Len(at) |-> s[at[j]]])

(***************************************************************************)
(* clean_unicode                                                           *)
(***************************************************************************)
\* The replacements dict, in its insertion order: << old, new >>.
replacements ==
    <<
        << 8216, << 39 >> >>,
        << 8217, << 39 >> >>,
        << 8220, << 34 >> >>,
        << 8221, << 34 >> >>,
        << 8218, << 39 >> >>,
        << 8219, << 39 >> >>,
        << 8222, << 34 >> >>,
        << 8223, << 34 >> >>,
        << 8249, << 60 >> >>,
        << 8250, << 62 >> >>,
        << 171, << 60, 60 >> >>,
        << 187, << 62, 62 >> >>,
        << 8208, << 45 >> >>,
        << 8209, << 45 >> >>,
        << 8210, << 45 >> >>,
        << 8211, << 45 >> >>,
        << 8212, << 45, 45 >> >>,
        << 8213, << 45, 45 >> >>,
        << 8722, << 45 >> >>,
        << 160, << 32 >> >>,
        << 8192, << 32 >> >>,
        << 8193, << 32 >> >>,
        << 8194, << 32 >> >>,
        << 8195, << 32 >> >>,
        << 8196, << 32 >> >>,
        << 8197, << 32 >> >>,
        << 8198, << 32 >> >>,
        << 8199, << 32 >> >>,
        << 8200, << 32 >> >>,
        << 8201, << 32 >> >>,
        << 8202, << 32 >> >>,
        << 8203, <<  >> >>,
        << 8230, << 46, 46, 46 >> >>,
        << 8226, << 45 >> >>,
        << 8227, << 45 >> >>,
        << 8259, << 45 >> >>,
        << 9679, << 45 >> >>,
        << 9702, << 45 >> >>,
        << 8729, << 42 >> >>,
        << 9642, << 45 >> >>,
        << 9643, << 45 >> >>,
        << 700, << 39 >> >>,
        << 8242, << 39 >> >>,
        << 8243, << 39, 39 >> >>,
        << 169, << 40, 99, 41 >> >>,
        << 174, << 40, 82, 41 >> >>,
        << 8482, << 40, 84, 77, 41 >> >>,
        << 176, << 32, 100, 101, 103 >> >>,
        << 177, << 43, 47, 45 >> >>,
        << 215, << 120 >> >>,
        << 247, << 47 >> >>,
        << 188, << 49, 47, 52 >> >>,
        << 189, << 49, 47, 50 >> >>,
        << 190, << 51, 47, 52 >> >>,
        << 8531, << 49, 47, 51 >> >>,
        << 8532, << 50, 47, 51 >> >>,
        << 8592, << 60, 45 >> >>,
        << 8593, << 94 >> >>,
        << 8594, << 45, 62 >> >>,
        << 8595, << 118 >> >>,
        << 8596, << 60, 45, 62 >> >>,
        << 8658, << 61, 62 >> >>,
        << 8660, << 60, 61, 62 >> >>
    >>

\* for old, new in replacements.items(): text = text.replace(old, new)
\* Every old is one character above 127 and every new is ASCII, so no pass
\* of the loop sees the output of another: each character of the text is
\* rewritten by the one entry that names it, if any.
replacement_of(c) ==
    LET hits == {k \in 1..Len(replacements) : replacements[k][1] = c}
    IN  IF hits = {} THEN << c >> ELSE replacements[Min(hits)][2]

replace_all(text) == concat([k \in 1..Len(text) |-> replacement_of(text[k])])

\* The character class of emoji_pattern.
is_emoji(c) ==
    \/ c \in 128512..128591
    \/ c \in 127744..128511
    \/ c \in 128640..128767
    \/ c \in 127456..127487
    \/ c \in 129280..129535
    \/ c \in 9728..10175
    \/ c \in 127488..127743
    \/ c \in 126976..127023
    \/ c \in 127136..127231

\* emoji_pattern.sub('', text)
remove_emoji(text) ==
    concat([k \in 1..Len(text) |-> IF is_emoji(text[k]) THEN << >> ELSE << text[k] >>])

\* The filter with the bound of Latin-1 in place of ASCII.
keep_latin1(text) ==
    concat([k \in 1..Len(text) |->
        IF text[k] < 256 \/ text[k] \in {NL, TAB, CR} THEN << text[k] >> ELSE << >>])

\* ''.join(char for char in text if ord(char) < 128 or char in '\n\t\r')
keep_ascii(text) ==
    concat([k \in 1..Len(text) |->
        IF text[k] < 128 \/ text[k] \in {NL, TAB, CR} THEN << text[k] >> ELSE << >>])

clean_unicode(text) == keep_ascii(remove_emoji(replace_all(text)))

(***************************************************************************)
(* identify_headers_footers                                                *)
(***************************************************************************)
\* [l.strip() for l in page.split('\n') if l.strip()]
nonblank_lines(page) ==
    LET lines == split(page, NL)
    IN  concat([k \in 1..Len(lines) |->
            IF strip(lines[k]) # << >> THEN << strip(lines[k]) >> ELSE << >>])

\* all_lines: the first and the last non-blank line of every page that has
\* at least two non-blank lines.
first_last_lines(pages) ==
    concat([p \in 1..Len(pages) |->
        LET lines == nonblank_lines(pages[p])
        IN  IF Len(lines) >= 2 THEN << lines[1], lines[Len(lines)] >> ELSE << >>])

\* Counter(all_lines)[line]
line_count(all_lines, line) == Cardinality({k \in 1..Len(all_lines) : all_lines[k] = line})

identify_headers_footers(pages) ==
    LET all_lines == first_last_lines(pages)
    IN  {all_lines[k] : k \in {j \in 1..Len(all_lines) :
            line_count(all_lines, all_lines[j]) >= 10 /\ Len(all_lines[j]) < 60}}

(***************************************************************************)
(* format_toc_line                                                         *)
(***************************************************************************)
\* [ivxlcdm] under re.IGNORECASE
roman_numerals == {105, 118, 120, 108, 99, 100, 109, 73, 86, 88, 76, 67, 68, 77}

is_roman(c) == c \in roman_numerals

\* The start (1-based) of the maximal run of characters of the class cls that
\* ends at position e; e + 1 when s[e] is not in the class.
run_start(s, e, cls) ==
    LET stops == {k \in 1..e : s[k] \notin cls}
    IN  IF stops = {} THEN 1 ELSE Max(stops) + 1

\* re.search(r'^(.+?)<sep><loc>\s*$', line) on a stripped line, where <loc>
\* is \d+ or [ivxlcdm]+ and <sep> is \.{2,} or \s+: the locator is the
\* maximal run of its class at the end of the line, the separator a run of
\* its class right before it, and the lazy group 1 takes as little as it
\* can, at least one character, none of them a newline.  The result is
\* << >> for no match, else << group 1, locator >>.  The classes are sets
\* of characters.
toc_match(line, is_sep, min_sep, is_loc) ==
    IF line = << >> THEN << >>
    ELSE
    LET n == Len(line)
        loc_start == run_start(line, n, is_loc)
        sep_start == run_start(line, loc_start - 1, is_sep)
        \* group 1 is line[1 .. g1_end]
        g1_end == IF sep_start = 1 THEN 1 ELSE sep_start - 1
        sep_len == (loc_start - 1) - g1_end
    IN  IF /\ loc_start <= n
           /\ loc_start > 1
           /\ sep_len >= min_sep
           /\ \A k \in 1..g1_end : line[k] # NL
        THEN << SubSeq(line, 1, g1_end), SubSeq(line, loc_start, n) >>
        ELSE << >>

\* f"{page_num} ... {text}"
toc_entry(page_num, text) == page_num \o << SP, DOT, DOT, DOT, SP >> \o text

format_toc_line(line0) ==
    LET line == strip(line0)
        m1 == toc_match(line, {DOT}, 2, digits)
        m2 == toc_match(line, {DOT}, 2, roman_numerals)
        m3 == toc_match(line, whitespace, 1, digits)
        m4 == toc_match(line, whitespace, 1, roman_numerals)
    IN  IF m1 # << >> THEN toc_entry(strip(m1[2]), strip(m1[1]))
        ELSE IF m2 # << >> THEN toc_entry(strip(m2[2]), strip(m2[1]))
        ELSE IF m3 # << >> /\ Len(strip(m3[2])) <= 4 THEN toc_entry(strip(m3[2]), strip(m3[1]))
        ELSE IF m4 # << >> /\ Len(strip(m4[2])) <= 5 THEN toc_entry(strip(m4[2]), strip(m4[1]))
        ELSE IF line # << >> /\ (\A k \in 1..Len(line) : isdigit(line[k])) /\ Len(line) <= 4
             THEN line \o << SP, DOT, DOT, DOT >>
        ELSE IF line # << >> /\ (\A k \in 1..Len(line) : is_roman(line[k])) /\ Len(line) <= 5
             THEN line \o << SP, DOT, DOT, DOT >>
        ELSE line

(***************************************************************************)
(* is_toc_page                                                             *)
(***************************************************************************)
\* A dotted leader of four periods.
has_dot_leader_of_four(line) == contains(line, << DOT, DOT, DOT, DOT >>)

\* '.....' in line or '......' in line
has_dot_leader(line) ==
    \/ contains(line, << DOT, DOT, DOT, DOT, DOT >>)
    \/ contains(line, << DOT, DOT, DOT, DOT, DOT, DOT >>)

\* re.search(r'\d+\s*$', line.strip())
ends_in_digits(line) == LET l == strip(line) IN l # << >> /\ isdigit(l[Len(l)])

is_toc_page(text) ==
    LET lines == split(text, NL)
        dot_lines == Cardinality({k \in 1..Len(lines) : has_dot_leader(lines[k])})
        number_heavy == Cardinality({k \in 1..Len(lines) : ends_in_digits(lines[k])})
        total_lines == Cardinality({k \in 1..Len(lines) : strip(lines[k]) # << >>})
    IN  /\ total_lines > 0
        \* x / total_lines > 0.3
        /\ \/ 10 * dot_lines > 3 * total_lines
           \/ 10 * number_heavy > 3 * total_lines

(***************************************************************************)
(* detect_header_level, is_bullet_or_list                                  *)
(***************************************************************************)
\* ['and', 'or', 'but', 'the', 'a', 'an']
continuation_words ==
    { << 97, 110, 100 >>, << 111, 114 >>, << 98, 117, 116 >>,
      << 116, 104, 101 >>, << 97 >>, << 97, 110 >> }

\* Python's truth value of prev_line: neither None nor ''.
truthy(s) == s # None /\ s # << >>

\* sum(1 for w in words if w and w[0].isupper())
caps_count(words) == Cardinality({k \in 1..Len(words) : isupper_char(words[k][1])})

\* The ALL CAPS rule without its two-word condition.
all_caps_header_any_words(line) == isupper(line) /\ 3 < Len(line) /\ Len(line) < 60

\* line.isupper() and 3 < len(line) < 60 and len(line.split()) >= 2
all_caps_header(line) ==
    isupper(line) /\ 3 < Len(line) /\ Len(line) < 60 /\ Len(split_ws(line)) >= 2

\* The result is NoLevel (None), 2, 3, or IndexError when the call raises.
detect_header_level(line0, prev_line) ==
    LET line == strip(line0)
        n == Len(line)
        words == split_ws(line)
    IN  IF line = << >> \/ n < 3 THEN NoLevel
        ELSE IF startswith_any(line, {HYPHEN, STAR, BULLET, BLACK_CIRCLE}) THEN NoLevel
        ELSE IF n > 80 /\ endswith_any(line, {DOT, BANG, QMARK}) THEN NoLevel
        ELSE IF startswith(line, << HASH, HASH, HASH >>) THEN 3
        ELSE IF truthy(prev_line) /\ islower_char(line[1]) THEN NoLevel
        ELSE IF truthy(prev_line) /\ ~endswith_any(prev_line, {HYPHEN, COMMA})
                /\ split_ws(prev_line) = << >> THEN IndexError
        ELSE IF truthy(prev_line)
                /\ \/ endswith_any(prev_line, {HYPHEN, COMMA})
                   \/ lower(split_ws(prev_line)[Len(split_ws(prev_line))]) \in continuation_words
             THEN NoLevel
        ELSE IF all_caps_header(line) THEN 2
        ELSE IF /\ 2 <= Len(words) /\ Len(words) <= 12 /\ n < 80
                \* caps_count >= len(words) * 0.7
                /\ 10 * caps_count(words) >= 7 * Len(words)
                /\ ~endswith_any(line, {DOT, BANG, QMARK, COMMA})
             THEN 3
        ELSE NoLevel

\* The result is "bullet", "numbered" or "None".
is_bullet_or_list(line0) ==
    LET line == strip(line0)
        \* re.match(r'^\d+[\.\)]\s', line)
        d == {k \in 1..Len(line) : ~isdigit(line[k])}
        numbered == /\ d # {} /\ Min(d) > 1
                    /\ line[Min(d)] \in {DOT, RPAREN}
                    /\ Min(d) + 1 <= Len(line) /\ isspace(line[Min(d) + 1])
    IN  IF startswith_any(line, {BULLET, BLACK_CIRCLE, WHITE_BULLET, SMALL_SQUARE, HYPHEN, STAR})
        THEN "bullet"
        ELSE IF numbered THEN "numbered"
        ELSE "None"

(***************************************************************************)
(* join_with_dehyphenation                                                 *)
(***************************************************************************)
\* The loop with a merge that keeps the hyphen.
RECURSIVE dehyphenate_keeps_hyphen(_, _, _)
dehyphenate_keeps_hyphen(lines, k, result) ==
    IF k > Len(lines) THEN result
    ELSE LET line == lines[k]
             m == Len(result)
         IN  IF m > 0 /\ endswith(result[m], << HYPHEN >>)
             THEN dehyphenate_keeps_hyphen(lines, k + 1,
                      [result EXCEPT ![m] = result[m] \o line])
             ELSE dehyphenate_keeps_hyphen(lines, k + 1, Append(result, line))

\* The loop over lines, from fragment k on, with result the list built so far.
RECURSIVE dehyphenate(_, _, _)
dehyphenate(lines, k, result) ==
    IF k > Len(lines) THEN result
    ELSE LET line == lines[k]
             m == Len(result)
         IN  IF m > 0 /\ endswith(result[m], << HYPHEN >>)
             THEN dehyphenate(lines, k + 1,
                      [result EXCEPT ![m] = SubSeq(result[m], 1, Len(result[m]) - 1) \o line])
             ELSE dehyphenate(lines, k + 1, Append(result, line))

join_with_dehyphenation(lines) ==
    IF lines = << >> THEN << >>
    ELSE join(<< SP >>, dehyphenate(lines, 1, << >>))

(***************************************************************************)
(* convert_to_markdown: the helpers of its loop body                       *)
(***************************************************************************)
\* "if buffer: markdown_lines.append(join_with_dehyphenation(buffer))",
\* followed by "markdown_lines.append('')" when blank is TRUE.
flush(out, buffer, blank) ==
    IF buffer = << >> THEN out
    ELSE IF blank THEN out \o << join_with_dehyphenation(buffer), << >> >>
    ELSE Append(out, join_with_dehyphenation(buffer))

\* The same appends on the record of which input lines each block carries.
flush_src(out_src, buffer_src, blank) ==
    IF buffer_src = << >> THEN out_src
    ELSE IF blank THEN out_src \o << buffer_src, << >> >>
    ELSE Append(out_src, buffer_src)

\* 'Table of Contents'
toc_title == << 84, 97, 98, 108, 101, 32, 111, 102, 32, 67, 111, 110, 116, 101, 110, 116, 115 >>

\* '## Table of Contents\n'
toc_heading == << HASH, HASH, SP >> \o toc_title \o << NL >>

\* any('Table of Contents' in line for line in markdown_lines[-5:] if line)
toc_heading_recent(out) ==
    \E k \in 1..Len(out) : k > Len(out) - 5 /\ out[k] # << >> /\ contains(out[k], toc_title)

\* re.sub(r'^#{1,3}\s*', '', line)
strip_header_marker(line) ==
    LET hashes == IF startswith(line, << HASH, HASH, HASH >>) THEN 3
                  ELSE IF startswith(line, << HASH, HASH >>) THEN 2
                  ELSE IF startswith(line, << HASH >>) THEN 1 ELSE 0
        rest == SubSeq(line, hashes + 1, Len(line))
        ns == {k \in 1..Len(rest) : ~isspace(rest[k])}
    IN  IF hashes = 0 THEN line
        ELSE IF ns = {} THEN << >>
        ELSE SubSeq(rest, Min(ns), Len(rest))

\* f"{'#' * header_level} {clean_line}"
header_line(header_level, clean_line) ==
    tuple([k \in 1..header_level |-> HASH]) \o << SP >> \o clean_line

\* re.sub(r'^[...]\s*', '- ', line) for a line that starts with a bullet glyph.
normalize_bullet(line) ==
    LET rest == SubSeq(line, 2, Len(line))
        ns == {k \in 1..Len(rest) : ~isspace(rest[k])}
    IN  << HYPHEN, SP >> \o (IF ns = {} THEN << >> ELSE SubSeq(rest, Min(ns), Len(rest)))

\* Python's truth value of a header level.
is_header(level) == level \in {2, 3}

\* The absorption loop with a lookahead that consumes the line it peeks at.
RECURSIVE absorb_eats_peek(_, _, _, _, _)
absorb_eats_peek(lines, i, item, src, noise) ==
    IF ~(i < Len(lines)) THEN [i |-> i, item |-> item, src |-> src]
    ELSE
    LET next_line == strip(lines[i + 1])
        before == IF i > 0 THEN strip(lines[i]) ELSE None
    IN  IF next_line = << >> THEN [i |-> i, item |-> item, src |-> src]
        ELSE IF next_line \in noise THEN absorb_eats_peek(lines, i + 1, item, src, noise)
        ELSE IF \/ is_bullet_or_list(next_line) # "None"
                \/ is_header(detect_header_level(next_line, before))
             THEN [i |-> i, item |-> item, src |-> src]
        ELSE
        LET item2 == Append(item, next_line)
            src2 == Append(src, i)
            i2 == i + 1
        IN  IF /\ endswith_any(next_line, {DOT, BANG, QMARK})
               /\ i2 < Len(lines)
               /\ LET peek_next == strip(lines[i2 + 1])
                  IN  \/ peek_next = << >>
                      \/ is_bullet_or_list(peek_next) # "None"
                      \/ is_header(detect_header_level(peek_next, next_line))
            THEN [i |-> i2 + 1, item |-> item2, src |-> src2]
            ELSE absorb_eats_peek(lines, i2, item2, src2, noise)

\* The "while i < len(lines)" loop that absorbs the continuation lines of a
\* list item, entered with index i (0-based, as in the source), the item
\* built so far and the input lines it carries.  The result is the index,
\* the item and its input lines at the loop's exit.
RECURSIVE absorb(_, _, _, _, _)
absorb(lines, i, item, src, noise) ==
    IF ~(i < Len(lines)) THEN [i |-> i, item |-> item, src |-> src]
    ELSE
    LET next_line == strip(lines[i + 1])
        before == IF i > 0 THEN strip(lines[i]) ELSE None
    IN  IF next_line = << >> THEN [i |-> i, item |-> item, src |-> src]
        ELSE IF next_line \in noise THEN absorb(lines, i + 1, item, src, noise)
        ELSE IF \/ is_bullet_or_list(next_line) # "None"
                \/ is_header(detect_header_level(next_line, before))
             THEN [i |-> i, item |-> item, src |-> src]
        ELSE
        LET item2 == Append(item, next_line)
            src2 == Append(src, i)
            i2 == i + 1
        IN  IF /\ endswith_any(next_line, {DOT, BANG, QMARK})
               /\ i2 < Len(lines)
               /\ LET peek_next == strip(lines[i2 + 1])
                  IN  \/ peek_next = << >>
                      \/ is_bullet_or_list(peek_next) # "None"
                      \/ is_header(detect_header_level(peek_next, next_line))
            THEN [i |-> i2, item |-> item2, src |-> src2]
            ELSE absorb(lines, i2, item2, src2, noise)

\* The three clean-up passes on the joined output.
\* re.sub(r'\n{3,}', '\n\n', markdown)
collapse_newlines(md) ==
    keep_positions(md, {k \in 1..Len(md) :
        ~(md[k] = NL /\ k > 2 /\ md[k - 1] = NL /\ md[k - 2] = NL)})

\* re.sub(r'\s+([.,!?;:])', r'\1', markdown)
strip_space_before_punct(md) ==
    keep_positions(md, {k \in 1..Len(md) :
        ~(/\ isspace(md[k])
          /\ LET after == {j \in (k + 1)..Len(md) : ~isspace(md[j])}
             IN  after # {} /\ md[Min(after)] \in {DOT, COMMA, BANG, QMARK, SEMI, COLON})})

\* The last pass left out.
rstrip_lines_skipped(md) == md

\* '\n'.join(line.rstrip() for line in markdown.split('\n'))
rstrip_lines(md) ==
    LET ls == split(md, NL)
    IN  join(<< NL >>, [k \in 1..Len(ls) |-> rstrip(ls[k])])

cleanup(out) == rstrip_lines(strip_space_before_punct(collapse_newlines(join(<< NL >>, out))))

(***************************************************************************)
(* The program's state.                                                    *)
(*   entry, pages, headers_footers: how the conversion was entered (main,  *)
(*     or a direct call of convert_to_markdown), its pages and NoiseSet;   *)
(*   pc, page_num, lines, i, prev_line, current_paragraph,                 *)
(*     current_list_item, in_list, markdown_lines: the locals of           *)
(*     convert_to_markdown and the place it has reached;                   *)
(*   markdown: the string it returns;                                      *)
(*   paragraph_src, list_item_src, markdown_src: for each buffered         *)
(*     fragment and each emitted block, the input lines << page, index >>  *)
(*     it carries (history variables, no part of the program);             *)
(*   fn, args, result: the last direct call of one of the pure functions.  *)
(***************************************************************************)
VARIABLES entry, pages, headers_footers, pc, page_num, lines, i, prev_line,
          current_paragraph, current_list_item, in_list, markdown_lines, markdown,
          paragraph_src, list_item_src, markdown_src, fn, args, result

vars == << entry, pages, headers_footers, pc, page_num, lines, i, prev_line,
           current_paragraph, current_list_item, in_list, markdown_lines, markdown,
           paragraph_src, list_item_src, markdown_src, fn, args, result >>

input_vars == << entry, pages, headers_footers >>
loop_vars == << page_num, lines, i, prev_line >>
buffer_vars == << current_paragraph, current_list_item, in_list,
                  paragraph_src, list_item_src >>
output_vars == << markdown_lines, markdown_src, markdown >>
call_vars == << fn, args, result >>

\* The state before main or convert_to_markdown runs on document doc.
InitDocument(doc) ==
    /\ entry = "none"
    /\ pages = doc
    /\ headers_footers = {}
    /\ pc = "main"
    /\ page_num = 0
    /\ lines = << >>
    /\ i = 0
    /\ prev_line = None
    /\ current_paragraph = << >>
    /\ current_list_item = << >>
    /\ in_list = FALSE
    /\ markdown_lines = << >>
    /\ markdown = << >>
    /\ paragraph_src = << >>
    /\ list_item_src = << >>
    /\ markdown_src = << >>

NoCall ==
    /\ fn = "none"
    /\ args = << >>
    /\ result = << >>

(***************************************************************************)
(* main and convert_to_markdown                                            *)
(***************************************************************************)
\* main: headers_footers = identify_headers_footers(pages), on the pages as
\* extracted, then convert_to_markdown(pages, headers_footers).
Main ==
    /\ pc = "main"
    /\ entry' = "main"
    /\ headers_footers' = identify_headers_footers(pages)
    /\ pc' = "page"
    /\ UNCHANGED << pages, loop_vars, buffer_vars, output_vars, call_vars >>

\* convert_to_markdown(pages, noise) called with a NoiseSet of the caller's.
ConvertDirect(noise) ==
    /\ pc = "main"
    /\ entry' = "direct"
    /\ headers_footers' = noise
    /\ pc' = "page"
    /\ UNCHANGED << pages, loop_vars, buffer_vars, output_vars, call_vars >>

\* The page the for loop is at, after clean_unicode.
page_text == clean_unicode(pages[page_num + 1])

\* The input lines (1-based) of a TOC page that are emitted: non-blank and not
\* noise, in page order.
toc_kept(ls) ==
    sorted_range({k \in 1..Len(ls) : strip(ls[k]) # << >> /\ strip(ls[k]) \notin headers_footers},
                 1, Len(ls))

\* One iteration of the for loop on a TOC page.
TocPage ==
    /\ pc = "page"
    /\ page_num < Len(pages)
    /\ page_num < 20 /\ is_toc_page(page_text)
    /\ LET out1 == flush(flush(markdown_lines, current_paragraph, FALSE),
                         current_list_item, FALSE)
           src1 == flush_src(flush_src(markdown_src, paragraph_src, FALSE),
                             list_item_src, FALSE)
           heading == ~toc_heading_recent(out1)
           out2 == IF heading THEN out1 \o << << >>, toc_heading >> ELSE out1
           src2 == IF heading THEN src1 \o << << >>, << >> >> ELSE src1
           ls == split(page_text, NL)
           kept == toc_kept(ls)
           entries == tuple([j \in 1..Len(kept) |-> format_toc_line(strip(ls[kept[j]]))])
           entries_src == tuple([j \in 1..Len(kept) |-> << << page_num, kept[j] - 1 >> >>])
       IN  /\ markdown_lines' = out2 \o entries \o << << >> >>
           /\ markdown_src' = src2 \o entries_src \o << << >> >>
    /\ current_paragraph' = << >>
    /\ paragraph_src' = << >>
    /\ current_list_item' = << >>
    /\ list_item_src' = << >>
    /\ in_list' = IF current_list_item # << >> THEN FALSE ELSE in_list
    /\ page_num' = page_num + 1
    /\ UNCHANGED << input_vars, pc, lines, i, prev_line, markdown, call_vars >>

\* A normal page: lines = page_text.split('\n'); i = 0; prev_line = None.
StartPage ==
    /\ pc = "page"
    /\ page_num < Len(pages)
    /\ ~(page_num < 20 /\ is_toc_page(page_text))
    /\ lines' = split(page_text, NL)
    /\ i' = 0
    /\ prev_line' = None
    /\ pc' = "line"
    /\ UNCHANGED << input_vars, page_num, buffer_vars, output_vars, call_vars >>

\* line = lines[i].strip() at the top of the while loop.
line == strip(lines[i + 1])

AtLine == pc = "line" /\ i < Len(lines)

\* if line in headers_footers: prev_line = line; continue
SkipHeaderFooter ==
    /\ AtLine
    /\ line \in headers_footers
    /\ prev_line' = line
    /\ i' = i + 1
    /\ UNCHANGED << input_vars, pc, page_num, lines, buffer_vars, output_vars, call_vars >>

\* if not line: flush both buffers
EmptyLine ==
    /\ AtLine
    /\ line \notin headers_footers
    /\ line = << >>
    /\ markdown_lines' = flush(flush(markdown_lines, current_list_item, FALSE),
                               current_paragraph, TRUE)
    /\ markdown_src' = flush_src(flush_src(markdown_src, list_item_src, FALSE),
                                 paragraph_src, TRUE)
    /\ current_list_item' = << >>
    /\ list_item_src' = << >>
    /\ current_paragraph' = << >>
    /\ paragraph_src' = << >>
    /\ in_list' = FALSE
    /\ prev_line' = None
    /\ i' = i + 1
    /\ UNCHANGED << input_vars, pc, page_num, lines, markdown, call_vars >>

\* if header_level: flush both buffers and emit the heading
Header ==
    /\ AtLine
    /\ line \notin headers_footers
    /\ line # << >>
    /\ is_header(detect_header_level(line, prev_line))
    /\ LET header_level == detect_header_level(line, prev_line)
           out1 == flush(flush(markdown_lines, current_list_item, FALSE),
                         current_paragraph, TRUE)
           src1 == flush_src(flush_src(markdown_src, list_item_src, FALSE),
                             paragraph_src, TRUE)
       IN  /\ markdown_lines' =
                 out1 \o << header_line(header_level, strip_header_marker(line)), << >> >>
           /\ markdown_src' = src1 \o << << << page_num, i >> >>, << >> >>
    /\ current_list_item' = << >>
    /\ list_item_src' = << >>
    /\ current_paragraph' = << >>
    /\ paragraph_src' = << >>
    /\ in_list' = FALSE
    /\ prev_line' = line
    /\ i' = i + 1
    /\ UNCHANGED << input_vars, pc, page_num, lines, markdown, call_vars >>

\* if list_type: flush both buffers, start a list item and absorb its
\* continuation lines
ListItem ==
    /\ AtLine
    /\ line \notin headers_footers
    /\ line # << >>
    /\ detect_header_level(line, prev_line) = NoLevel
    /\ is_bullet_or_list(line) # "None"
    /\ LET clean_line == IF is_bullet_or_list(line) = "bullet"
                         THEN normalize_bullet(line) ELSE line
           r == absorb(lines, i + 1, << clean_line >>, << i >>, headers_footers)
       IN  /\ current_list_item' = r.item
           /\ list_item_src' = tuple([k \in 1..Len(r.src) |-> << page_num, r.src[k] >>])
           /\ i' = r.i
    /\ markdown_lines' = flush(flush(markdown_lines, current_list_item, FALSE),
                               current_paragraph, TRUE)
    /\ markdown_src' = flush_src(flush_src(markdown_src, list_item_src, FALSE),
                                 paragraph_src, TRUE)
    /\ current_paragraph' = << >>
    /\ paragraph_src' = << >>
    /\ in_list' = TRUE
    /\ prev_line' = line
    /\ UNCHANGED << input_vars, pc, page_num, lines, markdown, call_vars >>

\* "if in_list: if current_list_item: ..." never flushes the list item.
list_item_pending_never == FALSE

\* if in_list: if current_list_item: the list item is flushed before the
\* paragraph text is buffered.
list_item_pending == in_list /\ current_list_item # << >>

\* Regular paragraph text.
ParagraphText ==
    /\ AtLine
    /\ line \notin headers_footers
    /\ line # << >>
    /\ detect_header_level(line, prev_line) = NoLevel
    /\ is_bullet_or_list(line) = "None"
    /\ LET flush_list == list_item_pending
           out1 == IF flush_list THEN flush(markdown_lines, current_list_item, FALSE)
                   ELSE markdown_lines
           src1 == IF flush_list THEN flush_src(markdown_src, list_item_src, FALSE)
                   ELSE markdown_src
           continues ==
               \/ endswith(line, << HYPHEN >>)
               \/ ~endswith_any(current_paragraph[Len(current_paragraph)],
                                {DOT, BANG, QMARK, COLON, DQUOTE})
       IN  /\ current_list_item' = IF flush_list THEN << >> ELSE current_list_item
           /\ list_item_src' = IF flush_list THEN << >> ELSE list_item_src
           /\ IF current_paragraph = << >>
              THEN /\ current_paragraph' = << line >>
                   /\ paragraph_src' = << << page_num, i >> >>
                   /\ markdown_lines' = out1
                   /\ markdown_src' = src1
              ELSE IF continues
              THEN /\ current_paragraph' = Append(current_paragraph, line)
                   /\ paragraph_src' = Append(paragraph_src, << page_num, i >>)
                   /\ markdown_lines' = out1
                   /\ markdown_src' = src1
              ELSE /\ current_paragraph' = << line >>
                   /\ paragraph_src' = << << page_num, i >> >>
                   /\ markdown_lines' = flush(out1, current_paragraph, TRUE)
                   /\ markdown_src' = flush_src(src1, paragraph_src, TRUE)
    /\ in_list' = FALSE
    /\ prev_line' = line
    /\ i' = i + 1
    /\ UNCHANGED << input_vars, pc, page_num, lines, markdown, call_vars >>

\* The while loop ends: the for loop moves to the next page.
EndPage ==
    /\ pc = "line"
    /\ ~(i < Len(lines))
    /\ page_num' = page_num + 1
    /\ pc' = "page"
    /\ UNCHANGED << input_vars, lines, i, prev_line, buffer_vars, output_vars, call_vars >>

\* After the last page: flush what remains, join and clean up, return.
Finish ==
    /\ pc = "page"
    /\ ~(page_num < Len(pages))
    /\ LET out == flush(flush(markdown_lines, current_list_item, FALSE),
                        current_paragraph, FALSE)
       IN  /\ markdown_lines' = out
           /\ markdown' = cleanup(out)
    /\ markdown_src' = flush_src(flush_src(markdown_src, list_item_src, FALSE),
                                 paragraph_src, FALSE)
    /\ pc' = "done"
    /\ UNCHANGED << input_vars, loop_vars, buffer_vars, call_vars >>

(***************************************************************************)
(* The documents and NoiseSets the pipeline is run on.                      *)
(***************************************************************************)
\* The longest document made of pages of PagePool.
MaxPages == 2
\* The most copies of one page in a document with running headers, and the
\* most pages that follow them.
MaxRepeat == 10
MaxTail == 1

\* "He went to the"
P_went ==
    << 72, 101, 32, 119, 101, 110, 116, 32, 116, 111, 32, 116, 104, 101 >>
\* "New York City"
P_city ==
    << 78, 101, 119, 32, 89, 111, 114, 107, 32, 67, 105, 116, 121 >>
\* "store and came\nback home."
P_back ==
    << 115, 116, 111, 114, 101, 32, 97, 110, 100, 32, 99, 97, 109, 101, 10, 98, 97, 99, 107, 32, 104, 111, 109, 101, 46 >>
\* "Some intro\n- item one\ncontinues here.\n* item two\nHdr\nmore of it\n\nAfter List"
P_list ==
    << 83, 111, 109, 101, 32, 105, 110, 116, 114, 111, 10, 45, 32, 105, 116, 101, 109, 32, 111, 110, 101, 10, 99, 111, 110, 116, 105, 110, 117, 101, 115, 32, 104, 101, 114, 101, 46, 10, 42, 32, 105, 116, 101, 109, 32, 116, 119, 111, 10, 72, 100, 114, 10, 109, 111, 114, 101, 32, 111, 102, 32, 105, 116, 10, 10, 65, 102, 116, 101, 114, 32, 76, 105, 115, 116 >>
\* "Contents\nIntro.....1\nChapter One  12\nHdr"
P_toc ==
    << 67, 111, 110, 116, 101, 110, 116, 115, 10, 73, 110, 116, 114, 111, 46, 46, 46, 46, 46, 49, 10, 67, 104, 97, 112, 116, 101, 114, 32, 79, 110, 101, 32, 32, 49, 50, 10, 72, 100, 114 >>
\* "BIG TITLE\nSome text-\nbroken here.\nMore text."
P_hyph ==
    << 66, 73, 71, 32, 84, 73, 84, 76, 69, 10, 83, 111, 109, 101, 32, 116, 101, 120, 116, 45, 10, 98, 114, 111, 107, 101, 110, 32, 104, 101, 114, 101, 46, 10, 77, 111, 114, 101, 32, 116, 101, 120, 116, 46 >>
\* "-\n###\nwait , what ?\n### Deep"
P_marks ==
    << 45, 10, 35, 35, 35, 10, 119, 97, 105, 116, 32, 44, 32, 119, 104, 97, 116, 32, 63, 10, 35, 35, 35, 32, 68, 101, 101, 112 >>
\* "Hdr\nSome text.\nFtr"
H_plain ==
    << 72, 100, 114, 10, 83, 111, 109, 101, 32, 116, 101, 120, 116, 46, 10, 70, 116, 114 >>
\* "<U+00A9> Acme Inc.\nSome text.\nFtr", U+00A9 the copyright sign
H_copy ==
    << 169, 32, 65, 99, 109, 101, 32, 73, 110, 99, 46, 10, 83, 111, 109, 101, 32, 116, 101, 120, 116, 46, 10, 70, 116, 114 >>
\* "Hdr\n- item\nHdr\nmore.\nFtr"
H_list ==
    << 72, 100, 114, 10, 45, 32, 105, 116, 101, 109, 10, 72, 100, 114, 10, 109, 111, 114, 101, 46, 10, 70, 116, 114 >>
\* "Hdr\nIntro.....1\nFtr"
H_toc ==
    << 72, 100, 114, 10, 73, 110, 116, 114, 111, 46, 46, 46, 46, 46, 49, 10, 70, 116, 114 >>
\* "Hdr"
L_Hdr ==
    << 72, 100, 114 >>
\* "Ftr"
L_Ftr ==
    << 70, 116, 114 >>

\* Pages of prose, lists, headings, a table of contents and hyphenation.
PagePool == {P_went, P_city, P_back, P_list, P_toc, P_hyph, P_marks}

\* Pages with a running header and footer around their content.
HeaderPages == {H_plain, H_copy, H_list, H_toc}

\* n copies of page.
repeat(page, n) == tuple([k \in 1..n |-> page])

\* The sequences over S of length 1..n.
RECURSIVE seqs_upto(_, _)
seqs_upto(S, n) ==
    IF n = 0 THEN {}
    ELSE {<< x >> : x \in S} \cup seqs_upto(S, n - 1)
         \cup {Append(q, x) : q \in seqs_upto(S, n - 1), x \in S}

SmallDocuments == seqs_upto(PagePool, MaxPages)

RepeatDocuments ==
    {repeat(p, n) \o repeat(q, m) :
        p \in HeaderPages, q \in HeaderPages, n \in 9..MaxRepeat, m \in 0..MaxTail}

Documents == SmallDocuments \cup RepeatDocuments

\* The NoiseSets of the direct calls of convert_to_markdown.
NoiseSets == {{L_Hdr}, {L_Hdr, L_Ftr}}

Init ==
    /\ \E doc \in Documents : InitDocument(doc)
    /\ NoCall

Next ==
    \/ Main
    \/ \E noise \in NoiseSets : ConvertDirect(noise)
    \/ TocPage
    \/ StartPage
    \/ SkipHeaderFooter
    \/ EmptyLine
    \/ Header
    \/ ListItem
    \/ ParagraphText
    \/ EndPage
    \/ Finish

Spec == Init /\ [][Next]_vars

(***************************************************************************)
(* Properties of the pipeline (specification Spec).                         *)
(***************************************************************************)
Done == pc = "done"

\* The lines of the returned Markdown.
output_lines == split(markdown, NL)

\* The stripped line k (0-based) of page p (0-based) after clean_unicode.
input_line(p, k) == strip(split(clean_unicode(pages[p + 1]), NL)[k + 1])

\* The stripped lines of page p (1-based) after clean_unicode.
clean_lines(p) ==
    LET ls == split(clean_unicode(pages[p]), NL)
    IN  tuple([k \in 1..Len(ls) |-> strip(ls[k])])

\* The number of pages of which l is the first or the last non-blank line.
first_or_last_pages(l) ==
    Cardinality({p \in 1..Len(pages) :
        LET ls == nonblank_lines(pages[p])
        IN  ls # << >> /\ (ls[1] = l \/ ls[Len(ls)] = l)})

\* The lines that are the first or last non-blank line of at least 10 pages
\* and are shorter than 60 characters.
repeated_short_lines ==
    {l \in UNION {{nonblank_lines(pages[p])[k] : k \in 1..Len(nonblank_lines(pages[p]))} :
                    p \in 1..Len(pages)} :
        first_or_last_pages(l) >= 10 /\ Len(l) < 60}

\* C1: after main has run, no line that is the first or last non-blank line
\* of at least 10 pages and is shorter than 60 characters appears (in the
\* form normalization gives it) as a line of the Markdown output.
C1_RepeatedLinesRemoved ==
    (Done /\ entry = "main") =>
        \A l \in repeated_short_lines :
            \A k \in 1..Len(output_lines) : output_lines[k] # strip(clean_unicode(l))

\* C2: the paragraph buffer and the list-item buffer are never both
\* non-empty, after any processed line and at any page boundary.
C2_BuffersExclusive == ~(current_paragraph # << >> /\ current_list_item # << >>)

\* A list item has just been started right after a line of an open
\* paragraph, which was flushed as the block before the separator.
C2_Witness ==
    /\ pc = "line"
    /\ current_list_item # << >>
    /\ current_paragraph = << >>
    /\ Len(markdown_src) >= 2
    /\ LET para == markdown_src[Len(markdown_src) - 1]
       IN  /\ para # << >>
           /\ para[Len(para)] = << page_num, list_item_src[1][2] - 1 >>
           /\ markdown_lines[Len(markdown_lines) - 1][1] # HASH

\* Line l, following line before on one page, is paragraph text.
plain_text_after(l, before) ==
    /\ l # << >>
    /\ detect_header_level(l, before) = NoLevel
    /\ is_bullet_or_list(l) = "None"

\* A two-page document of plain prose in which page 2 continues the
\* sentence that page 1 leaves open: neither page is a TOC page, no line is
\* noise, every line read after the one before it is paragraph text, and no
\* line but the last ends a sentence.
two_page_sentence ==
    /\ Len(pages) = 2
    /\ headers_footers = {}
    /\ ~is_toc_page(clean_unicode(pages[1]))
    /\ ~is_toc_page(clean_unicode(pages[2]))
    /\ LET all == clean_lines(1) \o clean_lines(2)
       IN  /\ \A k \in 1..Len(all) :
                 plain_text_after(all[k], IF k = 1 THEN None ELSE all[k - 1])
           /\ \A k \in 1..(Len(all) - 1) :
                 ~endswith_any(all[k], {DOT, BANG, QMARK, COLON, DQUOTE})

\* C3: a two-page document whose page 2 continues the sentence page 1 leaves
\* open is converted to one single paragraph block.
C3_OneParagraphAcrossPages ==
    (Done /\ two_page_sentence) =>
        /\ Len(markdown_lines) = 1
        /\ markdown = join_with_dehyphenation(clean_lines(1) \o clean_lines(2))

\* C4: the returned Markdown never has three consecutive blank lines, and
\* none of its lines ends in whitespace.
C4_OutputWhitespace ==
    Done =>
        /\ \A k \in 1..(Len(output_lines) - 2) :
              ~(output_lines[k] = << >> /\ output_lines[k + 1] = << >>
                                        /\ output_lines[k + 2] = << >>)
        /\ \A k \in 1..Len(output_lines) :
              output_lines[k] = << >> \/ ~isspace(output_lines[k][Len(output_lines[k])])

\* The conversion has returned, and before the clean-up passes the joined
\* blocks held a run of three newlines and a line ending in a space.
C4_Witness ==
    /\ Done
    /\ LET raw == join(<< NL >>, markdown_lines)
       IN  /\ contains(raw, << NL, NL, NL >>)
           /\ contains(raw, << SP, NL >>)

\* The input lines that are neither blank nor noise, in document order.
content_lines ==
    concat([p \in 1..Len(pages) |->
        LET ls == clean_lines(p)
        IN  concat([k \in 1..Len(ls) |->
                IF ls[k] # << >> /\ ls[k] \notin headers_footers
                THEN << << p - 1, k - 1 >> >> ELSE << >>])])

\* The text of a block is made of the input lines src, and of nothing else.
block_of(text, src) ==
    LET ls == tuple([j \in 1..Len(src) |-> input_line(src[j][1], src[j][2])])
    IN  \/ text = join_with_dehyphenation(ls)
        \/ /\ is_bullet_or_list(ls[1]) = "bullet"
           /\ text = join_with_dehyphenation(<< normalize_bullet(ls[1]) >> \o Tail(ls))
        \/ /\ Len(ls) = 1
           /\ \/ text = header_line(2, strip_header_marker(ls[1]))
              \/ text = header_line(3, strip_header_marker(ls[1]))
              \/ text = format_toc_line(ls[1])

\* C10: every non-blank line that is not noise is carried by exactly one
\* emitted block, the blocks carry the lines in input order, and a block
\* that carries no line is a separator or the TOC heading.
C10_EveryLineOnceInOrder ==
    Done =>
        /\ concat(markdown_src) = content_lines
        /\ Len(markdown_src) = Len(markdown_lines)
        /\ \A k \in 1..Len(markdown_lines) :
              IF markdown_src[k] = << >>
              THEN markdown_lines[k] \in {<< >>, toc_heading}
              ELSE block_of(markdown_lines[k], markdown_src[k])

\* The conversion has returned with a list item that absorbed a line from
\* beyond a skipped noise line, and with a TOC page emitted.
C10_Witness ==
    /\ Done
    /\ \E k \in 1..Len(markdown_src) :
          /\ Len(markdown_src[k]) >= 2
          /\ markdown_src[k][2][2] > markdown_src[k][1][2] + 1
    /\ \E k \in 1..Len(markdown_lines) : markdown_lines[k] = toc_heading

(***************************************************************************)
(* Direct calls of the pure functions (specification SpecFn): one call per  *)
(* behaviour, on an argument drawn from the sets below.                     *)
(***************************************************************************)
\* The longest line, page (in lines), text and fragment list enumerated.
MaxLineLen == 4
MaxTocLines == 4
MaxTextLen == 3
MaxFrags == 3

\* The strings over S of length 0..n.
strings_upto(S, n) == {<< >>} \cup seqs_upto(S, n)

\* "INTRODUCTION"
INTRODUCTION ==
    << 73, 78, 84, 82, 79, 68, 85, 67, 84, 73, 79, 78 >>
\* "Chapter One......12"
T_leader ==
    << 67, 104, 97, 112, 116, 101, 114, 32, 79, 110, 101, 46, 46, 46, 46, 46, 46, 49, 50 >>
\* "Appendix B  45"
T_spaces ==
    << 65, 112, 112, 101, 110, 100, 105, 120, 32, 66, 32, 32, 52, 53 >>
\* "Preface  iii"
T_roman ==
    << 80, 114, 101, 102, 97, 99, 101, 32, 32, 105, 105, 105 >>
\* "Index 12345"
T_five_digits ==
    << 73, 110, 100, 101, 120, 32, 49, 50, 51, 52, 53 >>
\* "a"
W_plain ==
    << 97 >>
\* "a....b"
W_four_dots ==
    << 97, 46, 46, 46, 46, 98 >>
\* "a.....b"
W_five_dots ==
    << 97, 46, 46, 46, 46, 46, 98 >>
\* "a1 "
W_digit ==
    << 97, 49, 32 >>
\* " "
W_blank ==
    << 32 >>
\* "a"
F_a ==
    << 97 >>
\* "-"
F_hy ==
    << 45 >>
\* "a-"
F_a_hy ==
    << 97, 45 >>
\* "-a"
F_hy_a ==
    << 45, 97 >>
\* "a b"
F_a_b ==
    << 97, 32, 98 >>
\* "--"
F_hy_hy ==
    << 45, 45 >>
\* "b -"
F_b_hy ==
    << 98, 32, 45 >>

\* Lines for detect_header_level: every string of A, a, space, '-', '#', '.'
\* up to MaxLineLen, and all-caps lines around the lengths 60 and 80.
HeaderLines ==
    strings_upto({65, 97, SP, HYPHEN, HASH, DOT}, MaxLineLen)
    \cup {INTRODUCTION}
    \cup {head \o repeat(65, n) \o tail :
            head \in {<< 65, 66, SP >>, << 65, 66, 67 >>, << 65, 98, SP >>},
            n \in {55, 56, 57, 76, 77, 78},
            tail \in {<< >>, << DOT >>}}

\* Previous lines: None, '', whitespace only, "a-", "x and".
PrevLines == {None, << >>, << SP, SP >>, << 97, HYPHEN >>, << 120, SP, 97, 110, 100 >>}

\* Lines for is_bullet_or_list: strings of '-', '1', '.', ')', space, a.
ListLines == strings_upto({HYPHEN, 49, DOT, RPAREN, SP, 97}, MaxLineLen)

\* Lines for format_toc_line: strings of a, '.', '1', i, space, and the
\* spec's examples.
TocLines ==
    strings_upto({97, DOT, 49, 105, SP}, MaxLineLen)
    \cup {T_leader, T_spaces, T_roman, T_five_digits}

\* Pages for is_toc_page: up to MaxTocLines lines, and ten-line pages with k
\* lines of one kind, for the ratios around 0.3.
TocLinePool == {W_plain, W_four_dots, W_five_dots, W_digit, W_blank, << >>}

TocPages ==
    {join(<< NL >>, ls) : ls \in seqs_upto(TocLinePool, MaxTocLines)}
    \cup {join(<< NL >>, repeat(w, k) \o repeat(W_plain, 10 - k)) :
            w \in {W_four_dots, W_five_dots, W_digit}, k \in 0..10}

\* Texts for clean_unicode: a, newline, tab, carriage return, (c), em
\* dash, (TM), zero-width space, e-acute, an emoticon.
UnicodeTexts == strings_upto({97, NL, TAB, CR, 169, 8212, 8482, 8203, 233, 128512}, MaxTextLen)

\* Fragment lists for join_with_dehyphenation.
FragmentPool == {<< >>, F_a, F_hy, F_a_hy, F_hy_a, F_a_b, F_hy_hy, F_b_hy}

FragmentLists == strings_upto(FragmentPool, MaxFrags)

InitFn ==
    /\ InitDocument(<< >>)
    /\ NoCall

pipeline_vars == << input_vars, pc, loop_vars, buffer_vars, output_vars >>

CallDetectHeaderLevel ==
    /\ fn = "none"
    /\ \E l \in HeaderLines, prev \in PrevLines :
          /\ fn' = "detect_header_level"
          /\ args' = << l, prev >>
          /\ result' = detect_header_level(l, prev)
    /\ UNCHANGED pipeline_vars

CallIsBulletOrList ==
    /\ fn = "none"
    /\ \E l \in ListLines :
          /\ fn' = "is_bullet_or_list"
          /\ args' = << l >>
          /\ result' = is_bullet_or_list(l)
    /\ UNCHANGED pipeline_vars

CallFormatTocLine ==
    /\ fn = "none"
    /\ \E l \in TocLines :
          /\ fn' = "format_toc_line"
          /\ args' = << l >>
          /\ result' = format_toc_line(l)
    /\ UNCHANGED pipeline_vars

CallIsTocPage ==
    /\ fn = "none"
    /\ \E text \in TocPages :
          /\ fn' = "is_toc_page"
          /\ args' = << text >>
          /\ result' = is_toc_page(text)
    /\ UNCHANGED pipeline_vars

CallCleanUnicode ==
    /\ fn = "none"
    /\ \E text \in UnicodeTexts :
          /\ fn' = "clean_unicode"
          /\ args' = << text >>
          /\ result' = clean_unicode(text)
    /\ UNCHANGED pipeline_vars

CallJoinWithDehyphenation ==
    /\ fn = "none"
    /\ \E frags \in FragmentLists :
          /\ fn' = "join_with_dehyphenation"
          /\ args' = << frags >>
          /\ result' = join_with_dehyphenation(frags)
    /\ UNCHANGED pipeline_vars

NextFn ==
    \/ CallDetectHeaderLevel
    \/ CallIsBulletOrList
    \/ CallFormatTocLine
    \/ CallIsTocPage
    \/ CallCleanUnicode
    \/ CallJoinWithDehyphenation

SpecFn == InitFn /\ [][NextFn]_vars

(***************************************************************************)
(* Properties of the pure functions (specification SpecFn).                 *)
(***************************************************************************)
\* A call of detect_header_level with no previous line on an all-uppercase
\* line whose stripped length is strictly between 3 and 60.
all_caps_call ==
    /\ fn = "detect_header_level"
    /\ args[2] = None
    /\ isupper(strip(args[1]))
    /\ 3 < Len(strip(args[1]))
    /\ Len(strip(args[1])) < 60

\* C5 as claimed: with no previous line, every all-uppercase line of length
\* strictly between 3 and 60 is a level-2 heading, a single word included.
C5_AllCapsIsLevel2 == all_caps_call => result = 2

\* C5 as amended: with no previous line, an all-uppercase line of length
\* strictly between 3 and 60 that starts with neither a bullet glyph nor
\* '###' is a level-2 heading exactly when it has two or more words; with a
\* single word it is no heading.
C5_AllCapsTwoWordsIsLevel2 ==
    (/\ all_caps_call
     /\ ~startswith_any(strip(args[1]), {HYPHEN, STAR, BULLET, BLACK_CIRCLE})
     /\ ~startswith(strip(args[1]), << HASH, HASH, HASH >>))
        => /\ Len(split_ws(args[1])) >= 2 => result = 2
           /\ Len(split_ws(args[1])) = 1 => result = NoLevel

\* detect_header_level("INTRODUCTION", None) has returned.
C5_Witness ==
    /\ fn = "detect_header_level"
    /\ args = << INTRODUCTION, None >>
    /\ result = NoLevel

\* C6: every classification function returns a definite result and never
\* raises, whatever the line and the previous line.
C6_ClassifiersTotal ==
    /\ fn = "detect_header_level" => result \in {NoLevel, 2, 3}
    /\ fn = "is_bullet_or_list" => result \in {"bullet", "numbered", "None"}
    /\ fn = "is_toc_page" => result \in BOOLEAN
    /\ fn = "format_toc_line" => result \in Seq(Nat)

\* Line l has a run of n or more periods.
has_period_run(l, n) ==
    \E k \in 1..(Len(l) - n + 1) : \A j \in k..(k + n - 1) : l[j] = DOT

\* Line l ends in a run of digits, whitespace around it apart.
ends_with_digit_run(l) ==
    \E k \in 1..Len(l) : isdigit(l[k]) /\ \A j \in (k + 1)..Len(l) : isspace(l[j])

\* A page is a TOC page as C7 has it, with a dotted leader of n periods: it
\* has a non-blank line, and more than 0.3 of its non-blank lines have a
\* dotted leader, or more than 0.3 of them end in a run of digits.
toc_page_by_ratio(text, n) ==
    LET ls == split(text, NL)
        nonblank == Cardinality({k \in 1..Len(ls) : \E j \in 1..Len(ls[k]) : ~isspace(ls[k][j])})
        dotted == Cardinality({k \in 1..Len(ls) : has_period_run(ls[k], n)})
        digit_ended == Cardinality({k \in 1..Len(ls) : ends_with_digit_run(ls[k])})
    IN  /\ nonblank >= 1
        /\ \/ dotted * 10 > nonblank * 3
           \/ digit_ended * 10 > nonblank * 3

\* C7 as claimed: is_toc_page decides by the two ratios, a run of 4 periods
\* counting as a dotted leader.
C7_TocPageFourPeriods ==
    fn = "is_toc_page" => (result <=> toc_page_by_ratio(args[1], 4))

\* C7 as amended: is_toc_page decides by the two ratios, a dotted leader
\* being a run of 5 or more periods (a run of exactly 4 does not count).
C7_TocPageFivePeriods ==
    fn = "is_toc_page" => (result <=> toc_page_by_ratio(args[1], 5))

\* is_toc_page has returned true for a page that has a line with a run of 5
\* periods and no line that ends in a digit.
C7_Witness ==
    /\ fn = "is_toc_page"
    /\ result = TRUE
    /\ \E k \in 1..Len(split(args[1], NL)) : split(args[1], NL)[k] = W_five_dots
    /\ \A k \in 1..Len(split(args[1], NL)) : ~ends_with_digit_run(split(args[1], NL)[k])

\* The newlines and tabs of a text, in order.
newlines_and_tabs(text) == keep_positions(text, {k \in 1..Len(text) : text[k] \in {NL, TAB}})

\* C8 as claimed: clean_unicode never lengthens the text, returns only code
\* points below 128, and keeps every newline and tab.
C8_CleanUnicodeNeverLonger ==
    fn = "clean_unicode" =>
        /\ Len(result) <= Len(args[1])
        /\ \A k \in 1..Len(result) : result[k] < 128
        /\ newlines_and_tabs(result) = newlines_and_tabs(args[1])

\* C8 as amended: clean_unicode returns only code points below 128 and keeps
\* every newline and tab; the text may grow, to at most four times its
\* length.
C8_CleanUnicodeAscii ==
    fn = "clean_unicode" =>
        /\ Len(result) <= 4 * Len(args[1])
        /\ \A k \in 1..Len(result) : result[k] < 128
        /\ newlines_and_tabs(result) = newlines_and_tabs(args[1])

\* clean_unicode has returned a longer text for one with a trademark sign,
\* a newline and a character it deletes.
C8_Witness ==
    /\ fn = "clean_unicode"
    /\ \E k \in 1..Len(args[1]) : args[1][k] = 8482
    /\ \E k \in 1..Len(args[1]) : args[1][k] = NL
    /\ \E k \in 1..Len(args[1]) : args[1][k] = 233
    /\ Len(result) > Len(args[1])

\* The fragments from the k-th on, joined onto the text so far: dropped
\* hyphen and no space after a text that ends in a hyphen, one space
\* otherwise.
RECURSIVE joined_onto(_, _, _)
joined_onto(text, frags, k) ==
    IF k > Len(frags) THEN text
    ELSE IF text # << >> /\ text[Len(text)] = HYPHEN
    THEN joined_onto(SubSeq(text, 1, Len(text) - 1) \o frags[k], frags, k + 1)
    ELSE joined_onto(text \o << SP >> \o frags[k], frags, k + 1)

\* C9: join_with_dehyphenation concatenates the fragments in order, with the
\* hyphen dropped and no space wherever the text so far ends in a hyphen and
\* exactly one space at every other boundary; no fragments give the empty
\* string, and a trailing hyphen of the last fragment is kept.
C9_JoinWithDehyphenation ==
    fn = "join_with_dehyphenation" =>
        LET frags == args[1]
        IN  /\ frags = << >> => result = << >>
            /\ frags # << >> => result = joined_onto(frags[1], frags, 2)
            /\ (frags # << >> /\ endswith(frags[Len(frags)], << HYPHEN >>))
                  => endswith(result, << HYPHEN >>)

\* join_with_dehyphenation has joined three fragments, the first two ending
\* in a hyphen, into a text without space.
C9_Witness ==
    /\ fn = "join_with_dehyphenation"
    /\ args[1] = << F_a_hy, F_a_hy, F_a >>
    /\ result = << 97, 97, 97 >>

====
